---- MODULE Spec2Model ----
(***************************************************************************)
(* Model of the solaredge register engine: HoldingRegister.decode and      *)
(* HoldingRegister.value (src/solaredge/register.py) and                   *)
(* SolaredgeDevice.group_registers / read_groups / update                  *)
(* (src/solaredge/device.py).                                              *)
(*                                                                         *)
(* Python values are records tagged by type.  A Python int is kept in      *)
(* sign-magnitude form with base-65536 digits, most significant first and  *)
(* without leading zeros, because 32- and 64-bit register values do not    *)
(* fit the checker's machine integers.  A float unpacked from a FLOAT32    *)
(* register is identified by its IEEE-754 single bit pattern.              *)
(***************************************************************************)
EXTENDS Integers, Sequences, FiniteSets, TLC

VARIABLES
    registers,    \* self.registers: the register map, in dict insertion order
    id,           \* self.id: the unit id of the device
    data_cache,   \* self.data_cache: key -> last decoded raw value
    call,         \* the synchronous operation in progress and its arguments
    result,       \* what the synchronous operation returned
    tasks,        \* the frame of each coroutine running update(client)
    in_flight,    \* the transport reads issued and not yet answered
    updates,      \* the number of update calls made so far
    answered      \* the number of transport reads answered so far

vars ==
    <<registers, id, data_cache, call, result, tasks, in_flight, updates,
      answered>>

\* no coroutine is running update
NoTasks == <<>>

----------------------------------------------------------------------------
(* Python values *)

NoneVal == [t |-> "None"]

PyInt(neg, mag) == [t |-> "int", neg |-> neg, mag |-> mag]

PyFloat32(bits) == [t |-> "float32", bits |-> bits]

PyStr(chars) == [t |-> "str", chars |-> chars]

PyList(items) == [t |-> "list", items |-> items]

StructError == [t |-> "struct.error"]

Reverse(s) == [i \in 1..Len(s) |-> s[Len(s) + 1 - i]]

RECURSIVE StripLeadingZeros(_)
StripLeadingZeros(digits) ==
    IF digits = <<>> THEN <<>>
    ELSE IF Head(digits) = 0 THEN StripLeadingZeros(Tail(digits))
    ELSE digits

----------------------------------------------------------------------------
(* struct.pack / struct.unpack as decode uses them *)

\* format_char = ">" if self.word_order == "big" else "<"
format_char(word_order) == IF word_order = "big" THEN ">" ELSE "<"

\* the two bytes of one word, high byte first whatever the format
PackHighByteFirst(fc, r) ==
    LET w == r % 65536
    IN  <<w \div 256, w % 256>>

\* struct.pack(f"{format_char}H", r & 0xFFFF): the two bytes of one word
PackH(fc, r) ==
    LET w == r % 65536
    IN  IF fc = ">" THEN <<w \div 256, w % 256>> ELSE <<w % 256, w \div 256>>

\* b"".join([... for r in registers])
RECURSIVE byte_buffer(_, _)
byte_buffer(fc, regs) ==
    IF regs = <<>> THEN <<>>
    ELSE PackH(fc, Head(regs)) \o byte_buffer(fc, Tail(regs))

\* the struct format character of each numeric data type
mapping ==
    [INT16 |-> "h", UINT16 |-> "H", INT32 |-> "i", UINT32 |-> "I",
     FLOAT32 |-> "f", UINT64 |-> "Q"]

\* struct.calcsize of a standard-size format
calcsize(fmt) ==
    CASE fmt \in {"h", "H"} -> 2
      [] fmt \in {"i", "I", "f"} -> 4
      [] fmt = "Q" -> 8

\* the bytes of a buffer, most significant first, as base-65536 digits
BufferDigits(fc, buf) ==
    LET msb == IF fc = ">" THEN buf ELSE Reverse(buf)
    IN  [i \in 1..(Len(buf) \div 2) |-> msb[2 * i - 1] * 256 + msb[2 * i]]

\* digits + 1 over a fixed width, dropping the carry out of the top digit
RECURSIVE Increment(_)
Increment(digits) ==
    IF digits = <<>> THEN <<>>
    ELSE LET n == Len(digits)
             front == SubSeq(digits, 1, n - 1)
         IN  IF digits[n] = 65535 THEN Increment(front) \o <<0>>
             ELSE front \o <<digits[n] + 1>>

\* the magnitude of a negative two's-complement pattern: invert, add one
TwosMagnitude(digits) ==
    Increment([i \in 1..Len(digits) |-> 65535 - digits[i]])

UnpackUnsigned(digits) == PyInt(FALSE, StripLeadingZeros(digits))

UnpackSigned(digits) ==
    IF digits[1] >= 32768
    THEN PyInt(TRUE, StripLeadingZeros(TwosMagnitude(digits)))
    ELSE PyInt(FALSE, StripLeadingZeros(digits))

\* struct.unpack_from: the value at the start of a buffer at least as long as
\* the format
UnpackFromStart(fc, fmt, buf) ==
    IF Len(buf) < calcsize(fmt) THEN StructError
    ELSE LET digits == BufferDigits(fc, SubSeq(buf, 1, calcsize(fmt)))
         IN  CASE fmt \in {"h", "i"} -> UnpackSigned(digits)
               [] fmt \in {"H", "I", "Q"} -> UnpackUnsigned(digits)
               [] fmt = "f" -> PyFloat32(digits)

\* struct.unpack(f"{format_char}{fmt}", byte_buffer)[0]
struct_unpack(fc, fmt, buf) ==
    IF Len(buf) # calcsize(fmt) THEN StructError
    ELSE LET digits == BufferDigits(fc, buf)
         IN  CASE fmt \in {"h", "i"} -> UnpackSigned(digits)
               [] fmt \in {"H", "I", "Q"} -> UnpackUnsigned(digits)
               [] fmt = "f" -> PyFloat32(digits)

----------------------------------------------------------------------------
(* bytes.decode("utf-8", errors="ignore"), str.split, str.strip *)

IsContinuation(b) == b >= 128 /\ b <= 191

\* the number of bytes a lead byte announces; 0 for a byte that cannot start
\* a sequence
Utf8Need(b) ==
    IF b < 128 THEN 1
    ELSE IF b >= 194 /\ b <= 223 THEN 2
    ELSE IF b >= 224 /\ b <= 239 THEN 3
    ELSE IF b >= 240 /\ b <= 244 THEN 4
    ELSE 0

\* whether b2 may follow lead byte b
Utf8SecondOk(b, b2) ==
    CASE b = 224 -> b2 >= 160 /\ b2 <= 191
      [] b = 237 -> b2 >= 128 /\ b2 <= 159
      [] b = 240 -> b2 >= 144 /\ b2 <= 191
      [] b = 244 -> b2 >= 128 /\ b2 <= 143
      [] OTHER -> IsContinuation(b2)

\* how many of the bytes after the lead byte at position i continue it
RECURSIVE Utf8Tail(_, _, _, _)
Utf8Tail(buf, i, k, need) ==
    IF k >= need - 1 \/ i + k + 1 > Len(buf) THEN k
    ELSE LET nb == buf[i + k + 1]
             ok == IF k = 0 THEN Utf8SecondOk(buf[i], nb) ELSE IsContinuation(nb)
         IN  IF ok THEN Utf8Tail(buf, i, k + 1, need) ELSE k

Utf8CodePoint(buf, i, need) ==
    CASE need = 1 -> buf[i]
      [] need = 2 -> (buf[i] - 192) * 64 + (buf[i + 1] - 128)
      [] need = 3 -> (buf[i] - 224) * 4096 + (buf[i + 1] - 128) * 64
                     + (buf[i + 2] - 128)
      [] need = 4 -> (buf[i] - 240) * 262144 + (buf[i + 1] - 128) * 4096
                     + (buf[i + 2] - 128) * 64 + (buf[i + 3] - 128)

\* the code points of buf from position i on, invalid sequences dropped
RECURSIVE Utf8Decode(_, _)
Utf8Decode(buf, i) ==
    IF i > Len(buf) THEN <<>>
    ELSE LET need == Utf8Need(buf[i])
         IN  IF need = 0 THEN Utf8Decode(buf, i + 1)
             ELSE LET k == Utf8Tail(buf, i, 0, need)
                  IN  IF k = need - 1
                      THEN <<Utf8CodePoint(buf, i, need)>>
                           \o Utf8Decode(buf, i + need)
                      ELSE Utf8Decode(buf, i + k + 1)

\* s.split("\0")[0]
RECURSIVE BeforeNul(_)
BeforeNul(chars) ==
    IF chars = <<>> \/ Head(chars) = 0 THEN <<>>
    ELSE <<Head(chars)>> \o BeforeNul(Tail(chars))

\* str.isspace of one character
IsSpace(c) ==
    \/ c >= 9 /\ c <= 13
    \/ c >= 28 /\ c <= 32
    \/ c \in {133, 160, 5760, 8232, 8233, 8239, 8287, 12288}
    \/ c >= 8192 /\ c <= 8202

RECURSIVE LStrip(_)
LStrip(chars) ==
    IF chars # <<>> /\ IsSpace(Head(chars)) THEN LStrip(Tail(chars)) ELSE chars

\* s.strip()
Strip(chars) == Reverse(LStrip(Reverse(LStrip(chars))))

----------------------------------------------------------------------------
(* HoldingRegister *)

\* the sentinels without the negative mirrors of the signed types
InvalidValuesUnsignedOnly ==
    [INT16   |-> {PyInt(FALSE, <<32768>>)},
     UINT16  |-> {PyInt(FALSE, <<65535>>)},
     INT32   |-> {PyInt(FALSE, <<32768, 0>>)},
     UINT32  |-> {PyInt(FALSE, <<65535, 65535>>)},
     INT64   |-> {PyInt(FALSE, <<32768, 0, 0, 0>>)},
     UINT64  |-> {PyInt(FALSE, <<65535, 65535, 65535, 65535>>)},
     FLOAT32 |-> {PyInt(FALSE, <<32704, 0>>)}]

\* INVALID_VALUES: the SunSpec "not implemented" values of each data type
INVALID_VALUES ==
    [INT16   |-> {PyInt(FALSE, <<32768>>), PyInt(TRUE, <<32768>>)},
     UINT16  |-> {PyInt(FALSE, <<65535>>)},
     INT32   |-> {PyInt(FALSE, <<32768, 0>>), PyInt(TRUE, <<32768, 0>>)},
     UINT32  |-> {PyInt(FALSE, <<65535, 65535>>)},
     INT64   |-> {PyInt(FALSE, <<32768, 0, 0, 0>>), PyInt(TRUE, <<32768, 0, 0, 0>>)},
     UINT64  |-> {PyInt(FALSE, <<65535, 65535, 65535, 65535>>)},
     FLOAT32 |-> {PyInt(FALSE, <<32704, 0>>)}]

\* the STRING branch without the strip()
DecodeStringUnstripped(buf) ==
    LET val == BeforeNul(Utf8Decode(buf, 1))
    IN  IF val # <<>> /\ ~(\A i \in 1..Len(buf) : buf[i] = 255)
        THEN PyStr(val) ELSE NoneVal

\* step 2 of decode: the STRING branch
decode_string(buf) ==
    LET val == Strip(BeforeNul(Utf8Decode(buf, 1)))
    IN  IF val # <<>> /\ ~(\A i \in 1..Len(buf) : buf[i] = 255)
        THEN PyStr(val) ELSE NoneVal

\* the value compared with INVALID_VALUES
check_val(data_type, fc, buf, raw_val) ==
    IF data_type = "FLOAT32" THEN struct_unpack(fc, "I", buf) ELSE raw_val

\* steps 3 and 4 of decode: unpack, then the sentinel check
decode_numeric(data_type, fc, buf) ==
    LET raw_val == struct_unpack(fc, mapping[data_type], buf)
    IN  IF raw_val = StructError THEN NoneVal
        ELSE IF /\ data_type \in DOMAIN INVALID_VALUES
                /\ check_val(data_type, fc, buf, raw_val) \in INVALID_VALUES[data_type]
             THEN NoneVal
             ELSE raw_val

\* HoldingRegister.decode
decode(reg, regs) ==
    IF regs = <<>> THEN NoneVal
    ELSE LET fc == format_char(reg.word_order)
             buf == byte_buffer(fc, regs)
         IN  IF reg.data_type = "STRING" THEN decode_string(buf)
             ELSE IF reg.data_type \notin DOMAIN mapping THEN PyList(regs)
             ELSE decode_numeric(reg.data_type, fc, buf)

\* an attribute that holds None or a str: None is <<>>, the str s is <<s>>
NoneKey == <<>>

Str(s) == <<s>>

\* HoldingRegister.__init__; name is the key the register is stored under in
\* self.registers
HoldingRegister(name, address, data_type, length, word_order, key, sf_key) ==
    [name |-> name, address |-> address, data_type |-> data_type,
     length |-> length, word_order |-> word_order, key |-> key,
     sf_key |-> sf_key]

----------------------------------------------------------------------------
(* HoldingRegister.raw_value and HoldingRegister.value *)

\* A float computed by arithmetic is the double nearest to the decimal
\* (+/-) mag * 10^(-places), displaced by ulps units in the last place.
PyFloat(neg, mag, places, ulps) ==
    [t |-> "float", neg |-> neg, mag |-> mag, places |-> places, ulps |-> ulps]

\* the displacements a float multiplication may leave
FloatNoise == {-1, 0, 1}

\* dict.get(key, 0): zero for a key the dict has not
GetOrZero(cache, k) == IF k \in DOMAIN cache THEN cache[k] ELSE PyInt(FALSE, <<>>)

\* dict.get(k)
cache_get(cache, k) == IF k \in DOMAIN cache THEN cache[k] ELSE NoneVal

\* bool(self.sf_key)
Truthy(key) == key # NoneKey /\ key # Str("")

\* an int of at most one digit as a number of the checker
SmallNat(mag) == IF mag = <<>> THEN 0 ELSE mag[1]

\* digits * k + carry, for k of one digit
RECURSIVE MulDigits(_, _, _)
MulDigits(digits, k, carry) ==
    IF digits = <<>> THEN (IF carry = 0 THEN <<>> ELSE <<carry>>)
    ELSE LET n == Len(digits)
             p == digits[n] * k + carry
         IN  MulDigits(SubSeq(digits, 1, n - 1), k, p \div 65536) \o <<p % 65536>>

RECURSIVE Pow10(_)
Pow10(e) == IF e = 0 THEN 1 ELSE 10 * Pow10(e - 1)

\* 10**sf: an int for sf >= 0, a float for sf < 0
py_pow10(sf) ==
    IF sf.neg THEN PyFloat(FALSE, <<1>>, SmallNat(sf.mag), 0)
    ELSE PyInt(FALSE, <<Pow10(SmallNat(sf.mag))>>)

\* val * p for an int val: an int when p is an int, else a float that the
\* multiplication may leave off the exact decimal by noise
py_mul(val, p, noise) ==
    IF p.t = "int"
    THEN LET mag == StripLeadingZeros(MulDigits(val.mag, SmallNat(p.mag), 0))
         IN  PyInt(val.neg /\ mag # <<>>, mag)
    ELSE PyFloat(val.neg, val.mag, p.places, IF val.mag = <<>> THEN 0 ELSE noise)

\* the float the rounding is left out of
Unrounded(x, ndigits) == x

\* round(x, ndigits) of a float that lies within the noise of a decimal of
\* ndigits places: that decimal
py_round(x, ndigits) ==
    CASE x.places <= ndigits -> PyFloat(x.neg, x.mag, x.places, 0)

\* HoldingRegister.raw_value
raw_value(reg, cache) == cache_get(cache, reg.key)

\* HoldingRegister.value
value(reg, cache, noise) ==
    LET val == raw_value(reg, cache)
    IN  IF val = NoneVal THEN NoneVal
        ELSE IF Truthy(reg.sf_key)
             THEN LET sf == cache_get(cache, reg.sf_key)
                  IN  IF sf # NoneVal
                      THEN LET scaled == py_mul(val, py_pow10(sf), noise)
                           IN  IF sf.neg THEN py_round(scaled, SmallNat(sf.mag))
                               ELSE scaled
                      ELSE val
             ELSE val

----------------------------------------------------------------------------
(* SolaredgeDevice.group_registers *)

\* the default of max_read_length
DefaultMaxReadLength == 120

\* where sorted() puts r among registers already in order: after every one
\* whose address is not larger (the sort is stable)
RECURSIVE InsertByAddress(_, _)
InsertByAddress(sorted, r) ==
    IF sorted = <<>> THEN <<r>>
    ELSE IF Head(sorted).address <= r.address
         THEN <<Head(sorted)>> \o InsertByAddress(Tail(sorted), r)
         ELSE <<r>> \o sorted

\* the registers left in insertion order
UnsortedRegs(regs) == regs

\* sorted(self.registers.values(), key=lambda r: r.address)
RECURSIVE sorted_regs(_)
sorted_regs(regs) ==
    IF regs = <<>> THEN <<>>
    ELSE InsertByAddress(sorted_regs(SubSeq(regs, 1, Len(regs) - 1)),
                         regs[Len(regs)])

is_adjacent(last_reg, next_reg) ==
    last_reg.address + last_reg.length = next_reg.address

is_same_type(last_reg, next_reg) == last_reg.data_type = next_reg.data_type

\* the word order left out of the comparison
SameOrderIgnored(last_reg, next_reg) == TRUE

is_same_order(last_reg, next_reg) == last_reg.word_order = next_reg.word_order

\* the length check made on the next register alone
FitsAlone(current_group_length, next_reg, max_read_length) ==
    next_reg.length <= max_read_length

fits_in_limit(current_group_length, next_reg, max_read_length) ==
    current_group_length + next_reg.length <= max_read_length

\* the for loop over sorted_regs[1:], and the closing of the final group
RECURSIVE group_loop(_, _, _, _, _)
group_loop(rest, groups, current_group, current_group_length, max_read_length) ==
    IF rest = <<>> THEN Append(groups, current_group)
    ELSE LET next_reg == Head(rest)
             last_reg == current_group[Len(current_group)]
         IN  IF /\ is_adjacent(last_reg, next_reg)
                /\ is_same_type(last_reg, next_reg)
                /\ is_same_order(last_reg, next_reg)
                /\ fits_in_limit(current_group_length, next_reg, max_read_length)
             THEN group_loop(Tail(rest), groups, Append(current_group, next_reg),
                             current_group_length + next_reg.length,
                             max_read_length)
             ELSE group_loop(Tail(rest), Append(groups, current_group),
                             <<next_reg>>, next_reg.length, max_read_length)

group_registers(regs, max_read_length) ==
    IF regs = <<>> THEN <<>>
    ELSE LET s == sorted_regs(regs)
         IN  group_loop(Tail(s), <<>>, <<s[1]>>, s[1].length, max_read_length)

----------------------------------------------------------------------------
(* Inputs of the grouping specification *)

\* the largest number of descriptors in an enumerated register map
MaxRegs == 3

KeyOf(i) == <<"r1", "r2", "r3", "r4", "r5", "r6">>[i]

GroupAddresses == {256, 257, 258}

GroupLengths == {1, 2}

GroupTypes == {"UINT16", "INT16"}

WordOrders == {"big", "little"}

GroupKinds == GroupTypes \X WordOrders

GroupBounds == {1, 2, 3, DefaultMaxReadLength}

\* the register map of n descriptors with fields f[i], inserted in the order
\* of i
EnumeratedMap(n, f) ==
    [i \in 1..n |-> HoldingRegister(KeyOf(i), f[i][1], f[i][2][1], f[i][3],
                                    f[i][2][2], Str(KeyOf(i)), NoneKey)]

\* test_grouping_max_read_length_split: five adjacent length-1 registers
FiveAdjacent ==
    [i \in 1..5 |->
        HoldingRegister(KeyOf(i), 255 + i, "UINT16", 1, "big", Str(KeyOf(i)), NoneKey)]

\* test_grouping_mixed_lengths_limit
MixedLengths ==
    <<HoldingRegister("r1", 512, "UINT16", 1, "big", Str("r1"), NoneKey),
      HoldingRegister("r2", 513, "FLOAT32", 2, "big", Str("r2"), NoneKey)>>

\* MockDevice of test_solaredge.py, after _init_registers
MockDeviceMap ==
    <<HoldingRegister("pwr", 40083, "INT16", 1, "big", Str("pwr"), Str("pwr_sf")),
      HoldingRegister("pwr_sf", 40084, "INT16", 1, "big", Str("pwr_sf"), NoneKey),
      HoldingRegister("model", 40020, "STRING", 16, "big", Str("model"), NoneKey)>>

\* the test maps, each with the bounds it is grouped under
FixtureInputs ==
    ({FiveAdjacent} \X {2, 5, DefaultMaxReadLength})
    \cup ({MixedLengths} \X {2, DefaultMaxReadLength})
    \cup ({MockDeviceMap} \X {2, DefaultMaxReadLength})

EmptyCache == [k \in {} |-> NoneVal]

InitGroup ==
    /\ \/ \E n \in 0..MaxRegs :
              \E f \in [1..n -> GroupAddresses \X GroupKinds \X GroupLengths] :
                  /\ registers = EnumeratedMap(n, f)
                  /\ \E m \in GroupBounds :
                         call = [op |-> "group_registers", state |-> "called",
                                 max_read_length |-> m]
       \/ \E input \in FixtureInputs :
              /\ registers = input[1]
              /\ call = [op |-> "group_registers", state |-> "called",
                         max_read_length |-> input[2]]
    /\ id = 1
    /\ data_cache = EmptyCache
    /\ tasks = NoTasks /\ in_flight = {} /\ updates = 0 /\ answered = 0
    /\ result = <<>>

\* a call of group_registers(max_read_length) on the session
GroupRegisters ==
    /\ call.op = "group_registers"
    /\ call.state = "called"
    /\ result' = group_registers(registers, call.max_read_length)
    /\ call' = [call EXCEPT !.state = "returned"]
    /\ UNCHANGED <<registers, id, data_cache, tasks, in_flight, updates, answered>>

NextGroup == GroupRegisters

SpecGroup == InitGroup /\ [][NextGroup]_vars

----------------------------------------------------------------------------
(* Properties of group_registers *)

GroupsReturned == call.op = "group_registers" /\ call.state = "returned"

RECURSIVE Flatten(_)
Flatten(gs) == IF gs = <<>> THEN <<>> ELSE Head(gs) \o Flatten(Tail(gs))

RECURSIVE SumLengths(_)
SumLengths(group) ==
    IF group = <<>> THEN 0 ELSE Head(group).length + SumLengths(Tail(group))

\* the position in Flatten(gs) of the first member of group g
RECURSIVE GroupStart(_, _)
GroupStart(gs, g) == IF g = 1 THEN 1 ELSE GroupStart(gs, g - 1) + Len(gs[g - 1])

\* the group that holds position j of Flatten(gs)
GroupOf(gs, j) ==
    CHOOSE g \in 1..Len(gs) :
        GroupStart(gs, g) <= j /\ j < GroupStart(gs, g) + Len(gs[g])

\* the word length of the group of position j, up to and including position j
AccumulatedLength(gs, j) ==
    LET g == GroupOf(gs, j)
    IN  SumLengths(SubSeq(gs[g], 1, j - GroupStart(gs, g) + 1))

GroupSizes(gs) == [g \in 1..Len(gs) |-> Len(gs[g])]

\* C1: the groups returned by group_registers partition the register map:
\* every descriptor is in exactly one group, no group is empty (an empty map
\* gives an empty list), and the groups read in order give the descriptors in
\* ascending address order.
GroupsPartitionInAddressOrder ==
    GroupsReturned =>
        LET flat == Flatten(result)
        IN  /\ \A g \in 1..Len(result) : result[g] # <<>>
            /\ registers = <<>> => result = <<>>
            /\ Len(flat) = Len(registers)
            /\ \A i \in 1..Len(registers) :
                   Cardinality({j \in 1..Len(flat) : flat[j] = registers[i]}) = 1
            /\ \A j \in 1..(Len(flat) - 1) : flat[j].address <= flat[j + 1].address

\* a map inserted out of address order was split into several groups
GroupsPartitionWitness ==
    /\ GroupsReturned
    /\ Len(registers) = 3
    /\ registers[1].address > registers[2].address
    /\ registers[2].address > registers[3].address
    /\ Len(result) = 2

\* C2: two descriptors consecutive in address order share a group exactly
\* when the second starts where the first ends, they have the same data type
\* and the same word order, and the accumulated length of the group plus the
\* second's length is within max_read_length; five adjacent length-1
\* registers give sizes 2,2,1 under bound 2 and one group of 5 under bound 5.
SameGroupIffFourConditions ==
    GroupsReturned =>
        LET flat == Flatten(result)
        IN  /\ \A j \in 1..(Len(flat) - 1) :
                   (GroupOf(result, j) = GroupOf(result, j + 1))
                   <=> /\ flat[j].address + flat[j].length = flat[j + 1].address
                       /\ flat[j].data_type = flat[j + 1].data_type
                       /\ flat[j].word_order = flat[j + 1].word_order
                       /\ AccumulatedLength(result, j) + flat[j + 1].length
                              <= call.max_read_length
            /\ (registers = FiveAdjacent /\ call.max_read_length = 2)
                   => GroupSizes(result) = <<2, 2, 1>>
            /\ (registers = FiveAdjacent /\ call.max_read_length = 5)
                   => GroupSizes(result) = <<5>>

\* three adjacent registers of one type and order, split by the length bound
\* alone
SameGroupWitness ==
    /\ GroupsReturned
    /\ Len(registers) = 3
    /\ GroupSizes(result) = <<2, 1>>
    /\ \A j \in 1..2 :
           LET flat == Flatten(result)
           IN  /\ flat[j].address + flat[j].length = flat[j + 1].address
               /\ flat[j].data_type = flat[j + 1].data_type
               /\ flat[j].word_order = flat[j + 1].word_order

\* C3 as stated: the member lengths of every group sum to at most
\* max_read_length.
EveryGroupWithinBound ==
    GroupsReturned =>
        \A g \in 1..Len(result) : SumLengths(result[g]) <= call.max_read_length

\* C3 as amended: a group is longer than max_read_length only when it is a
\* single descriptor, whose own length is above the bound; every group of two
\* or more members sums to at most max_read_length.
GroupWithinBoundUnlessSingle ==
    GroupsReturned =>
        \A g \in 1..Len(result) :
            \/ SumLengths(result[g]) <= call.max_read_length
            \/ Len(result[g]) = 1

\* a bound that one descriptor alone exceeds and that a group of two reaches
\* exactly
GroupWithinBoundWitness ==
    /\ GroupsReturned
    /\ Len(result) = 2
    /\ Len(result[1]) = 1
    /\ result[1][1].length > call.max_read_length
    /\ Len(result[2]) = 2
    /\ SumLengths(result[2]) = call.max_read_length

----------------------------------------------------------------------------
(* Inputs of the decoding specification *)

\* the largest number of words handed to decode
MaxWords == 4

\* 0, 1, 0x7FC0, 0x7FFF, 0x8000, 0xFFFE, 0xFFFF
SampleWords == {0, 1, 32704, 32767, 32768, 65534, 65535}

DataTypes ==
    {"INT16", "UINT16", "INT32", "UINT32", "INT64", "UINT64", "FLOAT32", "STRING"}

InitDecode ==
    /\ \E data_type \in DataTypes, word_order \in WordOrders, n \in 0..MaxWords :
           \E ws \in [1..n -> SampleWords] :
               /\ registers = <<HoldingRegister("r1", 256, data_type,
                                                IF n = 0 THEN 1 ELSE n,
                                                word_order, Str("r1"), NoneKey)>>
               /\ call = [op |-> "decode", state |-> "called", words |-> ws]
    /\ id = 1
    /\ data_cache = EmptyCache
    /\ tasks = NoTasks /\ in_flight = {} /\ updates = 0 /\ answered = 0
    /\ result = NoneVal

\* a call of registers["r1"].decode(words)
Decode ==
    /\ call.op = "decode"
    /\ call.state = "called"
    /\ result' = decode(registers[1], call.words)
    /\ call' = [call EXCEPT !.state = "returned"]
    /\ UNCHANGED <<registers, id, data_cache, tasks, in_flight, updates, answered>>

NextDecode == Decode

SpecDecode == InitDecode /\ [][NextDecode]_vars

----------------------------------------------------------------------------
(* Properties of decode *)

Decoded == call.op = "decode" /\ call.state = "returned"

\* the SunSpec "not implemented" bit pattern of each type, as 16-bit words,
\* most significant first
SunSpecSentinel ==
    [INT16   |-> <<32768>>,
     UINT16  |-> <<65535>>,
     INT32   |-> <<32768, 0>>,
     UINT32  |-> <<65535, 65535>>,
     UINT64  |-> <<65535, 65535, 65535, 65535>>,
     FLOAT32 |-> <<32704, 0>>]

\* the bit pattern a word sequence assembles to, most significant word first
AssembledPattern(word_order, words) ==
    IF word_order = "big" THEN words ELSE Reverse(words)

\* C4: given exactly as many words as its type is wide, decode returns None
\* exactly when the assembled bit pattern is the SunSpec sentinel of the type;
\* UINT16 0xFFFE is 65534, INT16 0xFFFF is -1, UINT32 0xFFFFFFFE is 4294967294.
NoneIffSentinelPattern ==
    Decoded =>
        LET reg == registers[1]
            words == call.words
        IN  /\ (reg.data_type \in DOMAIN SunSpecSentinel
                /\ Len(words) = Len(SunSpecSentinel[reg.data_type]))
                   => ((result = NoneVal)
                       <=> (AssembledPattern(reg.word_order, words)
                                = SunSpecSentinel[reg.data_type]))
            /\ (reg.data_type = "UINT16" /\ words = <<65534>>)
                   => result = PyInt(FALSE, <<65534>>)
            /\ (reg.data_type = "INT16" /\ words = <<65535>>)
                   => result = PyInt(TRUE, <<1>>)
            /\ (reg.data_type = "UINT32" /\ reg.word_order = "big"
                /\ words = <<65535, 65534>>)
                   => result = PyInt(FALSE, <<65535, 65534>>)

\* the INT32 sentinel, least significant word first, decoded to None
NoneIffSentinelWitness ==
    /\ Decoded
    /\ registers[1].data_type = "INT32"
    /\ registers[1].word_order = "little"
    /\ call.words = <<0, 32768>>
    /\ result = NoneVal

IntTypes == {"INT16", "UINT16", "INT32", "UINT32"}

IntWidth == [INT16 |-> 1, UINT16 |-> 1, INT32 |-> 2, UINT32 |-> 2]

\* the integers whose magnitude has at most two digits drawn from SampleWords
SampleInts ==
    { PyInt(neg, mag) :
        neg \in BOOLEAN,
        mag \in { m \in UNION {[1..n -> SampleWords] : n \in 0..2} :
                    m = <<>> \/ m[1] # 0 } }
    \ {PyInt(TRUE, <<>>)}

\* whether m < 2^15 * 65536^(n-1), for a magnitude m of at most n digits
BelowHalf(m, n) == Len(m) < n \/ m[1] < 32768

\* whether integer v is a value of the type
InRange(v, data_type) ==
    LET n == IntWidth[data_type]
        half == <<32768>> \o [i \in 1..(n - 1) |-> 0]
    IN  /\ Len(v.mag) <= n
        /\ data_type \in {"UINT16", "UINT32"} => ~v.neg
        /\ data_type \in {"INT16", "INT32"} =>
               \/ BelowHalf(v.mag, n)
               \/ v.neg /\ v.mag = half

\* the value the type reserves for "not implemented"
IsSentinelValue(v, data_type) ==
    CASE data_type = "INT16" -> v = PyInt(TRUE, <<32768>>)
      [] data_type = "UINT16" -> v = PyInt(FALSE, <<65535>>)
      [] data_type = "INT32" -> v = PyInt(TRUE, <<32768, 0>>)
      [] data_type = "UINT32" -> v = PyInt(FALSE, <<65535, 65535>>)

\* digits - 1 over a fixed width, for digits above zero
RECURSIVE Decrement(_)
Decrement(digits) ==
    LET n == Len(digits)
        front == SubSeq(digits, 1, n - 1)
    IN  IF digits[n] = 0 THEN Decrement(front) \o <<65535>>
        ELSE front \o <<digits[n] - 1>>

\* the two's-complement encoding of v as the 16-bit words of the type, most
\* significant word first for "big", least significant first for "little"
EncodeWords(v, data_type, word_order) ==
    LET n == IntWidth[data_type]
        padded == [i \in 1..(n - Len(v.mag)) |-> 0] \o v.mag
        pattern == IF v.neg
                   THEN [i \in 1..n |-> 65535 - Decrement(padded)[i]]
                   ELSE padded
    IN  IF word_order = "big" THEN pattern ELSE Reverse(pattern)

\* C5: for INT16, UINT16, INT32 and UINT32 and both word orders, decode of
\* the two's-complement encoding of a value v of the type, other than the
\* sentinel, is v; a single word decodes to the same number under both word
\* orders.
IntegerRoundTrip ==
    Decoded =>
        LET reg == registers[1]
            other == [reg EXCEPT !.word_order =
                          IF reg.word_order = "big" THEN "little" ELSE "big"]
        IN  reg.data_type \in IntTypes =>
                /\ \A v \in SampleInts :
                       (/\ InRange(v, reg.data_type)
                        /\ ~IsSentinelValue(v, reg.data_type)
                        /\ EncodeWords(v, reg.data_type, reg.word_order) = call.words)
                           => result = v
                /\ (IntWidth[reg.data_type] = 1 /\ Len(call.words) = 1)
                       => result = decode(other, call.words)

\* -2 as an INT32, least significant word first, decoded back to -2
IntegerRoundTripWitness ==
    /\ Decoded
    /\ registers[1].data_type = "INT32"
    /\ registers[1].word_order = "little"
    /\ call.words = EncodeWords(PyInt(TRUE, <<2>>), "INT32", "little")
    /\ call.words = <<65534, 65535>>
    /\ result = PyInt(TRUE, <<2>>)

----------------------------------------------------------------------------
(* Inputs of the value specification *)

\* the largest magnitude of a scale-factor exponent in the cache
MaxScale == 2

\* 0, 42, 100, 123, 1500, -1500 and 0xFFFFFFFE
SampleRaw ==
    {PyInt(FALSE, <<>>), PyInt(FALSE, <<42>>), PyInt(FALSE, <<100>>),
     PyInt(FALSE, <<123>>), PyInt(FALSE, <<1500>>), PyInt(TRUE, <<1500>>),
     PyInt(FALSE, <<65535, 65534>>)}

ScaleFactors ==
    {PyInt(FALSE, <<>>)}
    \cup {PyInt(neg, <<e>>) : neg \in BOOLEAN, e \in 1..MaxScale}

\* a value register and its scale-factor register; sf_key is None, "" or
\* the key of the scale-factor register
ValueMap(sf_key) ==
    <<HoldingRegister("pwr", 40083, "INT16", 1, "big", Str("pwr"), sf_key),
      HoldingRegister("pwr_sf", 40084, "INT16", 1, "big", Str("pwr_sf"), NoneKey)>>

\* the caches over the keys of ValueMap
ValueCaches ==
    UNION { { [k \in keys |-> IF k = Str("pwr") THEN raw ELSE sf] :
              raw \in SampleRaw \cup {NoneVal},
              sf \in ScaleFactors \cup {NoneVal} }
            : keys \in SUBSET {Str("pwr"), Str("pwr_sf")} }

InitValue ==
    /\ \E sf_key \in {NoneKey, Str(""), Str("pwr_sf")} :
           registers = ValueMap(sf_key)
    /\ id = 1
    /\ data_cache \in ValueCaches
    /\ tasks = NoTasks /\ in_flight = {} /\ updates = 0 /\ answered = 0
    /\ \E i \in 1..2 : call = [op |-> "value", state |-> "called", reg |-> i]
    /\ result = NoneVal

\* a read of registers[...].value
GetValue ==
    /\ call.op = "value"
    /\ call.state = "called"
    /\ \E noise \in FloatNoise :
           result' = value(registers[call.reg], data_cache, noise)
    /\ call' = [call EXCEPT !.state = "returned"]
    /\ UNCHANGED <<registers, id, data_cache, tasks, in_flight, updates, answered>>

NextValue == GetValue

SpecValue == InitValue /\ [][NextValue]_vars

----------------------------------------------------------------------------
(* Properties of value *)

ValueReturned == call.op = "value" /\ call.state = "returned"

RECURSIVE TimesTen(_, _)
TimesTen(mag, e) ==
    IF e = 0 THEN mag ELSE TimesTen(MulDigits(mag, 10, 0), e - 1)

\* raw * 10^sf, rounded to |sf| decimal places when sf is negative
Scaled(raw, sf) ==
    IF sf.neg THEN PyFloat(raw.neg, raw.mag, sf.mag[1], 0)
    ELSE PyInt(raw.neg, TimesTen(raw.mag, SmallNat(sf.mag)))

\* C6: value is None when the raw cached value is None; the raw value when
\* the register has no scale-factor link or the linked key is not in the
\* cache; otherwise raw * 10^sf, rounded to |sf| places for negative sf
\* (1500 with sf -1 is 150.0, 123 with sf -2 is 1.23, 42 with no sf is 42).
ValueResolvedFromCache ==
    ValueReturned =>
        LET reg == registers[call.reg]
            has_raw == reg.key \in DOMAIN data_cache
            raw == data_cache[reg.key]
            linked == reg.sf_key \notin {NoneKey, Str("")}
            has_sf == reg.sf_key \in DOMAIN data_cache
            sf == data_cache[reg.sf_key]
        IN  /\ (~has_raw \/ raw = NoneVal) => result = NoneVal
            /\ (has_raw /\ raw # NoneVal /\ (~linked \/ ~has_sf \/ sf = NoneVal))
                   => result = raw
            /\ (has_raw /\ raw # NoneVal /\ linked /\ has_sf /\ sf # NoneVal)
                   => result = Scaled(raw, sf)
            /\ (has_raw /\ linked /\ has_sf /\ raw = PyInt(FALSE, <<1500>>)
                /\ sf = PyInt(TRUE, <<1>>))
                   => result = PyFloat(FALSE, <<1500>>, 1, 0)
            /\ (has_raw /\ linked /\ has_sf /\ raw = PyInt(FALSE, <<123>>)
                /\ sf = PyInt(TRUE, <<2>>))
                   => result = PyFloat(FALSE, <<123>>, 2, 0)
            /\ (has_raw /\ ~has_sf /\ raw = PyInt(FALSE, <<42>>))
                   => result = PyInt(FALSE, <<42>>)

\* 123 scaled by 10^-2 where the multiplication left noise behind
ValueResolvedWitness ==
    /\ ValueReturned
    /\ call.reg = 1
    /\ registers[1].sf_key = Str("pwr_sf")
    /\ DOMAIN data_cache = {Str("pwr"), Str("pwr_sf")}
    /\ data_cache[Str("pwr")] = PyInt(FALSE, <<123>>)
    /\ data_cache[Str("pwr_sf")] = PyInt(TRUE, <<2>>)
    /\ result = PyFloat(FALSE, <<123>>, 2, 0)

----------------------------------------------------------------------------
(* SolaredgeDevice.update and SolaredgeDevice.read_groups *)

\* the entry written only when the value is not None
SetUnlessNone(d, k, v) ==
    IF v = NoneVal THEN d
    ELSE [x \in DOMAIN d \cup {k} |-> IF x = k THEN v ELSE d[x]]

\* d[k] = v
dict_set(d, k, v) ==
    [x \in DOMAIN d \cup {k} |-> IF x = k THEN v ELSE d[x]]

\* the cache set to the results of this read alone
CacheReplaced(cache, raw_data) == raw_data

\* self.data_cache.update(raw_data)
cache_update(cache, raw_data) ==
    [k \in DOMAIN cache \cup DOMAIN raw_data |->
        IF k \in DOMAIN raw_data THEN raw_data[k] ELSE cache[k]]

\* seq[lo:hi] of Python, for 0 <= lo <= hi
PySlice(seq, lo, hi) ==
    SubSeq(seq, lo + 1, IF hi < Len(seq) THEN hi ELSE Len(seq))

start_addr(group) == group[1].address

\* the number of descriptors of the group
MemberCount(group) == Len(group)

\* sum(reg.length for reg in group)
RECURSIVE total_count(_)
total_count(group) ==
    IF group = <<>> THEN 0 ELSE Head(group).length + total_count(Tail(group))

\* the arguments of client.read_holding_registers
ReadRequest(t, group) ==
    [task |-> t, address |-> start_addr(group), count |-> total_count(group),
     device_id |-> id]

\* the inner loop: slice the buffer per register and decode each slice
RECURSIVE decode_group(_, _, _, _)
decode_group(group, raw_buffer, cursor, decoded_data) ==
    IF group = <<>> THEN decoded_data
    ELSE LET reg == Head(group)
             register_slice == PySlice(raw_buffer, cursor, cursor + reg.length)
         IN  decode_group(Tail(group), raw_buffer, cursor + reg.length,
                          dict_set(decoded_data, reg.key,
                                   decode(reg, register_slice)))

\* the exception classes a transport read raises
TransportErrors == {"ModbusIOException", "ConnectionError"}

\* only the library's own exception caught
CaughtModbusOnly(e) == e = "ModbusIOException"

\* except Exception: every subclass of Exception is caught
CaughtByExcept(e) ==
    e \in {"ModbusIOException", "ConnectionException", "ConnectionError",
           "TimeoutError"}

\* the frame of a coroutine that is not inside update
IdleFrame ==
    [pc |-> "idle", groups |-> <<>>, g |-> 0, decoded_data |-> EmptyCache,
     reads |-> <<>>, outcomes |-> <<>>, before |-> EmptyCache]

\* the rest of update with the results stored in the cache after every group
\* instead of once when read_groups has returned
ContinueStoringEachGroup(t, f, pending) ==
    /\ data_cache' = cache_update(data_cache, f.decoded_data)
    /\ IF f.g < Len(f.groups)
       THEN LET req == ReadRequest(t, f.groups[f.g + 1])
            IN  /\ tasks' = [tasks EXCEPT ![t] =
                               [f EXCEPT !.pc = "await", !.g = f.g + 1,
                                         !.reads = Append(@, req)]]
                /\ in_flight' = pending \cup {req}
       ELSE /\ tasks' = [tasks EXCEPT ![t] = [f EXCEPT !.pc = "returned"]]
            /\ in_flight' = pending

\* The rest of update once frame f has dealt with group f.g, with the reads
\* in pending still unanswered: the read of the next group is issued and the
\* coroutine suspends, or read_groups returns and update stores the results
\* and returns.
Continue(t, f, pending) ==
    IF f.g < Len(f.groups)
    THEN LET req == ReadRequest(t, f.groups[f.g + 1])
         IN  /\ tasks' = [tasks EXCEPT ![t] =
                            [f EXCEPT !.pc = "await", !.g = f.g + 1,
                                      !.reads = Append(@, req)]]
             /\ in_flight' = pending \cup {req}
             /\ UNCHANGED data_cache
    ELSE /\ tasks' = [tasks EXCEPT ![t] = [f EXCEPT !.pc = "returned"]]
         /\ in_flight' = pending
         /\ data_cache' = cache_update(data_cache, f.decoded_data)

\* the largest number of update calls made on a session
MaxUpdates == 2

\* update(client) is called: read_groups groups the registers and issues the
\* read of the first group
UpdateCall(t) ==
    /\ tasks[t].pc \in {"idle", "returned", "raised"}
    /\ updates < MaxUpdates
    /\ updates' = updates + 1
    /\ Continue(t, [IdleFrame EXCEPT
                       !.groups = group_registers(registers, DefaultMaxReadLength),
                       !.before = data_cache],
                in_flight)
    /\ UNCHANGED <<registers, id, call, result, answered>>

\* the read the coroutine is suspended in
AwaitedRead(t) == CHOOSE r \in in_flight : r.task = t

\* the word the device holds at an address: every register unset (0xFFFF),
\* or the registers of test_update_lifecycle ("SE10K", 3000, 0xFFFF) with two
\* ASCII letters that depend on the address everywhere else
DeviceImages == {"unset", "sample"}

DeviceWord(image, addr) ==
    CASE image = "unset" -> 65535
      [] image = "sample" ->
            CASE addr = 40020 -> 21317
              [] addr = 40021 -> 12592
              [] addr = 40022 -> 19200
              [] addr \in 40023..40035 -> 0
              [] addr = 40083 -> 3000
              [] addr = 40084 -> 65535
              [] OTHER -> (65 + (addr % 26)) * 256 + 97 + ((7 * addr) % 26)

\* the lengths of the buffer a read of count registers comes back with: all
\* of them, or one short
ResponseLengths(count) == {count, count - 1}

\* response.registers
ResponseRegisters(image, address, n) ==
    [i \in 1..n |-> DeviceWord(image, address + i - 1)]

\* the read returns a response that is no error: its buffer is sliced and
\* decoded
ReadReturns(t) ==
    /\ tasks[t].pc = "await"
    /\ LET f == tasks[t]
           req == AwaitedRead(t)
       IN  \E image \in DeviceImages, n \in ResponseLengths(req.count) :
               LET raw_buffer == ResponseRegisters(image, req.address, n)
               IN  Continue(t,
                            [f EXCEPT
                               !.decoded_data =
                                   decode_group(f.groups[f.g], raw_buffer, 0, @),
                               !.outcomes =
                                   Append(@, [kind |-> "registers",
                                              registers |-> raw_buffer,
                                              at |-> answered + 1])],
                            in_flight \ {req})
    /\ answered' = answered + 1
    /\ UNCHANGED <<registers, id, call, result, updates>>

\* the read returns a response with isError(): the group is skipped
ReadReturnsError(t) ==
    /\ tasks[t].pc = "await"
    /\ Continue(t,
                [tasks[t] EXCEPT
                    !.outcomes = Append(@, [kind |-> "error", registers |-> <<>>,
                                            at |-> answered + 1])],
                in_flight \ {AwaitedRead(t)})
    /\ answered' = answered + 1
    /\ UNCHANGED <<registers, id, call, result, updates>>

\* the read raises: the group is skipped when the except clause catches the
\* exception, and update raises it when not
ReadRaises(t) ==
    /\ tasks[t].pc = "await"
    /\ \E e \in TransportErrors :
           LET f == [tasks[t] EXCEPT
                        !.outcomes = Append(@, [kind |-> "raised",
                                                registers |-> <<>>,
                                                at |-> answered + 1])]
           IN  IF CaughtByExcept(e)
               THEN Continue(t, f, in_flight \ {AwaitedRead(t)})
               ELSE /\ tasks' = [tasks EXCEPT ![t] = [f EXCEPT !.pc = "raised"]]
                    /\ in_flight' = in_flight \ {AwaitedRead(t)}
                    /\ UNCHANGED data_cache
    /\ answered' = answered + 1
    /\ UNCHANGED <<registers, id, call, result, updates>>

----------------------------------------------------------------------------
(* The sessions update is run on *)

\* part of the map SolaredgeInverter.__init__ builds: the constructor passes
\* no key and no sf_key, and does not call _init_registers
InverterMap ==
    <<HoldingRegister("i_ac_current", 40071, "UINT16", 1, "big", NoneKey, NoneKey),
      HoldingRegister("i_ac_currenta", 40072, "UINT16", 1, "big", NoneKey, NoneKey),
      HoldingRegister("i_ac_currentb", 40073, "UINT16", 1, "big", NoneKey, NoneKey),
      HoldingRegister("i_ac_currentc", 40074, "UINT16", 1, "big", NoneKey, NoneKey),
      HoldingRegister("i_ac_current_sf", 40075, "INT16", 1, "big", NoneKey, NoneKey)>>

\* a map of three groups, set up by _init_registers
MixedMap ==
    <<HoldingRegister("freq", 302, "UINT16", 1, "big", Str("freq"), Str("freq_sf")),
      HoldingRegister("freq_sf", 303, "INT16", 1, "big", Str("freq_sf"), NoneKey),
      HoldingRegister("energy", 300, "INT32", 2, "little", Str("energy"), NoneKey)>>

\* a map whose adjacent registers of one type are longer than the default
\* bound together: LongCount strings of LongWords registers each
LongCount == 13
LongWords == 10
LongName(i) == "text_" \o ToString(i)
LongMap ==
    [i \in 1..LongCount |->
        HoldingRegister(LongName(i), 1000 + LongWords * (i - 1), "STRING",
                        LongWords, "big", Str(LongName(i)), NoneKey)]

\* SolaredgeDevice.__init__ leaves the map empty
EmptyMap == <<>>

SessionMaps == {EmptyMap, MockDeviceMap, InverterMap, MixedMap, LongMap}

Init ==
    /\ registers \in SessionMaps
    /\ id \in {1, 2}
    /\ data_cache = EmptyCache
    /\ call = [op |-> "update", state |-> "called"]
    /\ result = NoneVal
    /\ tasks = [t \in {1} |-> IdleFrame]
    /\ in_flight = {}
    /\ updates = 0
    /\ answered = 0

Next ==
    \E t \in DOMAIN tasks :
        \/ UpdateCall(t)
        \/ ReadReturns(t)
        \/ ReadReturnsError(t)
        \/ ReadRaises(t)

Spec == Init /\ [][Next]_vars

----------------------------------------------------------------------------
(* Claims about update *)

\* the reads a whole update of task t issues, by the groups of the map
ExpectedReads(t) ==
    LET gs == group_registers(registers, DefaultMaxReadLength)
    IN  [g \in 1..Len(gs) |->
            [task |-> t, address |-> gs[g][1].address,
             count |-> SumLengths(gs[g]), device_id |-> id]]

\* the cache entry of a key: <<value>> when present, <<>> when absent
EntryOf(cache, k) == IF k \in DOMAIN cache THEN <<cache[k]>> ELSE <<>>

\* the groups whose read came back with registers in the update of frame f
ReadOk(f, g) == f.outcomes[g].kind = "registers"

\* the value this cycle's buffer gives member m of group g
DecodedThisCycle(f, g, m) ==
    LET group == f.groups[g]
        cursor == SumLengths(SubSeq(group, 1, m - 1))
    IN  decode(group[m],
               PySlice(f.outcomes[g].registers, cursor, cursor + group[m].length))

\* C7: in every update the reads issued are one per group of
\* group_registers (bound 120), in ascending order of start address, each with
\* the address of the group's first descriptor, the sum of the members'
\* lengths as count and the session's id, and each issued only when every
\* earlier read of the update has come back: an update never has two reads in
\* flight.
ReadsOnePerGroupInOrder ==
    \A t \in DOMAIN tasks :
        LET f == tasks[t]
            expected == ExpectedReads(t)
            flying == {r \in in_flight : r.task = t}
        IN  /\ Cardinality(flying) <= 1
            /\ Len(f.reads) <= Len(expected)
            /\ f.reads = SubSeq(expected, 1, Len(f.reads))
            /\ f.pc = "returned" => f.reads = expected
            /\ \A i, j \in 1..Len(f.reads) :
                   i < j => f.reads[i].address < f.reads[j].address
            /\ f.pc = "await" =>
                   /\ flying = {f.reads[Len(f.reads)]}
                   /\ Len(f.outcomes) = Len(f.reads) - 1
            /\ f.pc # "await" =>
                   /\ flying = {}
                   /\ Len(f.outcomes) = Len(f.reads)

\* an update of three groups has returned: its first read raised, its second
\* came back as an error response, and a group of two registers was read
ReadsOnePerGroupWitness ==
    \E t \in DOMAIN tasks :
        LET f == tasks[t]
        IN  /\ f.pc = "returned"
            /\ Len(f.reads) = 3
            /\ f.outcomes[1].kind = "raised"
            /\ f.outcomes[2].kind = "error"
            /\ f.outcomes[3].kind = "registers"
            /\ f.reads[1].count = 2
            /\ f.reads[1].address < f.reads[2].address

\* C8: when update has returned, the cache entry of every member of a group
\* whose read raised or returned an error response is as it was before the
\* update (absent, or the value it had), and the entry of every member of
\* every other group holds the value decoded from this cycle's buffer.
PartialFailureKeepsEntries ==
    \A t \in DOMAIN tasks :
        LET f == tasks[t]
        IN  f.pc = "returned" =>
                \A g \in 1..Len(f.groups) : \A m \in 1..Len(f.groups[g]) :
                    LET k == f.groups[g][m].key
                    IN  IF ReadOk(f, g)
                        THEN EntryOf(data_cache, k) = <<DecodedThisCycle(f, g, m)>>
                        ELSE EntryOf(data_cache, k) = EntryOf(f.before, k)

\* the update of task t has not raised, has read no group twice and, when it
\* has returned, has read every group
NeverRaised ==
    \A t \in DOMAIN tasks :
        LET f == tasks[t]
        IN  /\ f.pc # "raised"
            /\ f.g = Len(f.reads)
            /\ Len(f.reads) <= Len(f.groups)
            /\ f.pc = "returned" =>
                   /\ Len(f.reads) = Len(f.groups)
                   /\ Len(f.outcomes) = Len(f.groups)

\* a read that comes back, whatever it comes back with, takes the update of
\* task t to the read of the next group or to its return
ReadTakesUpdateOn(t) ==
    tasks[t].pc = "await" /\ tasks'[t] # tasks[t] =>
        \/ /\ tasks'[t].pc = "await"
           /\ tasks'[t].g = tasks[t].g + 1
        \/ /\ tasks'[t].pc = "returned"
           /\ tasks[t].g = Len(tasks[t].groups)

\* C9: no exception crosses update. Whether a group's read raises, returns
\* an error response or returns a buffer of the length asked for or a shorter
\* one, update goes on to the next group, so it attempts every group once,
\* ends after as many reads as there are groups, and returns without raising.
UpdateReturnsWithoutRaising ==
    [][/\ NeverRaised
       /\ NeverRaised'
       /\ \A t \in DOMAIN tasks : ReadTakesUpdateOn(t)]_vars

\* an update has returned after a read that raised, a read that returned an
\* error response and a read that returned one register fewer than asked for
UpdateReturnsWitness ==
    \E t \in DOMAIN tasks :
        LET f == tasks[t]
        IN  /\ f.pc = "returned"
            /\ \E g \in 1..Len(f.groups) : f.outcomes[g].kind = "raised"
            /\ \E g \in 1..Len(f.groups) : f.outcomes[g].kind = "error"
            /\ \E g \in 1..Len(f.groups) :
                   /\ ReadOk(f, g)
                   /\ Len(f.outcomes[g].registers) < f.reads[g].count

\* C10 as stated: when update has returned the cache holds exactly the
\* entries decoded in that cycle and nothing else.
CacheOverwrittenEachCycle ==
    \A t \in DOMAIN tasks :
        tasks[t].pc = "returned" => data_cache = tasks[t].decoded_data

\* the keys of the members of the groups read in the update of frame f
KeysRead(f) ==
    UNION {{f.groups[g][m].key : m \in 1..Len(f.groups[g])} :
              g \in {h \in 1..Len(f.groups) : ReadOk(f, h)}}

\* C10, amended: when update has returned, the entries decoded in that cycle
\* are those of the members of the groups whose read succeeded, the cache
\* holds each of them with this cycle's value, and every other entry of the
\* cache is as it was before the update: the cycle is merged into the cache.
CacheMergedEachCycle ==
    \A t \in DOMAIN tasks :
        LET f == tasks[t]
        IN  f.pc = "returned" =>
                /\ DOMAIN f.decoded_data = KeysRead(f)
                /\ DOMAIN data_cache = DOMAIN f.before \cup DOMAIN f.decoded_data
                /\ \A k \in DOMAIN data_cache :
                       IF k \in DOMAIN f.decoded_data
                       THEN data_cache[k] = f.decoded_data[k]
                       ELSE data_cache[k] = f.before[k]

\* an update has returned that decoded one entry anew and left one entry of
\* an earlier cycle, whose group it could not read, in the cache
CacheMergedWitness ==
    \E t \in DOMAIN tasks :
        LET f == tasks[t]
        IN  /\ f.pc = "returned"
            /\ \E k \in DOMAIN f.before \ DOMAIN f.decoded_data :
                   data_cache[k] # NoneVal
            /\ \E k \in DOMAIN f.before \cap DOMAIN f.decoded_data :
                   /\ f.before[k] # f.decoded_data[k]
                   /\ data_cache[k] = f.decoded_data[k]

----------------------------------------------------------------------------
(* Claims about the keys of a session's descriptors *)

\* the descriptor stored under name in the register map
RegNamed(name) ==
    registers[CHOOSE i \in 1..Len(registers) : registers[i].name = name]

\* every read of the update of frame f came back with registers
EveryReadOk(f) == \A g \in 1..Len(f.groups) : ReadOk(f, g)

\* C11: in a session, a freshly constructed SolaredgeInverter included, the
\* key of every descriptor is a string, its name in the register map, and no
\* two descriptors have the same key; so when an update in which every read
\* succeeded has returned, the cache has one entry per descriptor, under the
\* descriptor's own key.
KeysUniqueOneEntryEach ==
    \A t \in DOMAIN tasks :
        tasks[t].pc = "returned" /\ EveryReadOk(tasks[t]) =>
            /\ \A i \in 1..Len(registers) :
                   registers[i].key = Str(registers[i].name)
            /\ \A i, j \in 1..Len(registers) :
                   i # j => registers[i].key # registers[j].key
            /\ \A i \in 1..Len(registers) :
                   Str(registers[i].name) \in DOMAIN data_cache
            /\ Cardinality(DOMAIN data_cache) = Len(registers)

\* C17: in a constructed SolaredgeInverter the descriptor i_ac_currenta has
\* sf_key "i_ac_current_sf", and i_ac_current_sf is a name of the register
\* map.
InverterPhaseCurrentLinked ==
    registers = InverterMap =>
        /\ RegNamed("i_ac_currenta").sf_key = Str("i_ac_current_sf")
        /\ \E i \in 1..Len(registers) : registers[i].name = "i_ac_current_sf"

----------------------------------------------------------------------------
(* SolaredgeDevice._init_registers *)

\* sf_candidate = f"{key}_sf"
sf_candidate(key) == key \o "_sf"

\* sf_candidate in self.registers
in_registers(regs, name) == \E i \in 1..Len(regs) : regs[i].name = name

\* the scale factor linked whether or not one was given to the constructor
SfKeyOverwritten(regs, reg) ==
    IF in_registers(regs, sf_candidate(reg.name))
    THEN Str(sf_candidate(reg.name))
    ELSE reg.sf_key

\* reg.sf_key once the loop body has run for reg
linked_sf_key(regs, reg) ==
    IF reg.sf_key = NoneKey /\ in_registers(regs, sf_candidate(reg.name))
    THEN Str(sf_candidate(reg.name))
    ELSE reg.sf_key

\* the register map once _init_registers has run
init_registers(regs) ==
    [i \in 1..Len(regs) |->
        [regs[i] EXCEPT !.key = Str(regs[i].name),
                        !.sf_key = linked_sf_key(regs, regs[i])]]

\* the names the maps are built from, in insertion order
NameSeq ==
    <<"pwr", "pwr_sf", "pwr_sf_sf", "i_ac_current", "i_ac_currenta",
      "i_ac_current_sf">>

\* what the constructor was given for a name: no descriptor of that name
\* ("out"), or a descriptor with these key and sf_key arguments
Presets ==
    {[in |-> FALSE, key |-> NoneKey, sf_key |-> NoneKey],
     [in |-> TRUE, key |-> NoneKey, sf_key |-> NoneKey],
     [in |-> TRUE, key |-> NoneKey, sf_key |-> Str("other_sf")],
     [in |-> TRUE, key |-> NoneKey, sf_key |-> Str("")],
     [in |-> TRUE, key |-> Str("old"), sf_key |-> NoneKey]}

\* the map of the names chosen by f, one INT16 register each
RECURSIVE PresetMap(_, _)
PresetMap(f, n) ==
    IF n = 0 THEN <<>>
    ELSE IF f[n].in
         THEN Append(PresetMap(f, n - 1),
                     HoldingRegister(NameSeq[n], 256 + n, "INT16", 1, "big",
                                     f[n].key, f[n].sf_key))
         ELSE PresetMap(f, n - 1)

InitInitRegisters ==
    /\ \E f \in [1..Len(NameSeq) -> Presets] :
           /\ registers = PresetMap(f, Len(NameSeq))
           /\ call = [op |-> "_init_registers", state |-> "called",
                      before |-> registers]
    /\ id = 1
    /\ data_cache = EmptyCache
    /\ result = NoneVal
    /\ tasks = NoTasks
    /\ in_flight = {}
    /\ updates = 0
    /\ answered = 0

InitRegisters ==
    /\ call.op = "_init_registers"
    /\ call.state = "called"
    /\ registers' = init_registers(registers)
    /\ call' = [call EXCEPT !.state = "returned"]
    /\ UNCHANGED <<id, data_cache, result, tasks, in_flight, updates, answered>>

NextInitRegisters == InitRegisters

SpecInitRegisters == InitInitRegisters /\ [][NextInitRegisters]_vars

\* the name with "_sf" appended, written out for every name of NameSeq
ExactSfName ==
    [pwr |-> "pwr_sf", pwr_sf |-> "pwr_sf_sf", pwr_sf_sf |-> "pwr_sf_sf_sf",
     i_ac_current |-> "i_ac_current_sf", i_ac_currenta |-> "i_ac_currenta_sf",
     i_ac_current_sf |-> "i_ac_current_sf_sf"]

InitRegistersReturned == call.op = "_init_registers" /\ call.state = "returned"

\* C12: when _init_registers has returned, every descriptor's key is its
\* name K in the map; its sf_key is K + "_sf" if its sf_key was None before
\* and the map has a descriptor named exactly K + "_sf", and is what it was
\* before in every other case: an sf_key given explicitly is kept, and a name
\* that only shares a part with K (i_ac_current_sf for i_ac_currenta) links
\* nothing.
SfLinkedExactly ==
    InitRegistersReturned =>
        /\ Len(registers) = Len(call.before)
        /\ \A i \in 1..Len(registers) :
               LET reg == registers[i]
                   was == call.before[i]
                   wanted == ExactSfName[was.name]
               IN  /\ reg.name = was.name
                   /\ reg.key = Str(was.name)
                   /\ IF /\ was.sf_key = NoneKey
                         /\ \E j \in 1..Len(registers) : registers[j].name = wanted
                      THEN reg.sf_key = Str(wanted)
                      ELSE reg.sf_key = was.sf_key

\* _init_registers has returned on a map where pwr was linked to pwr_sf,
\* pwr_sf kept the sf_key it was given although pwr_sf_sf is in the map, and
\* i_ac_currenta stayed without sf_key next to i_ac_current_sf
SfLinkedWitness ==
    /\ InitRegistersReturned
    /\ \E i, j, k, l, m \in 1..Len(registers) :
           /\ registers[i].name = "pwr"
           /\ call.before[i].sf_key = NoneKey
           /\ registers[i].sf_key = Str("pwr_sf")
           /\ registers[j].name = "pwr_sf"
           /\ registers[j].sf_key = Str("other_sf")
           /\ registers[k].name = "pwr_sf_sf"
           /\ registers[l].name = "i_ac_currenta"
           /\ registers[l].sf_key = NoneKey
           /\ call.before[l].key = Str("old")
           /\ registers[m].name = "i_ac_current_sf"

----------------------------------------------------------------------------
(* decode and the length of the word sequence *)

\* the number of 16-bit words of each numeric type of a descriptor
NumericWidth ==
    [INT16 |-> 1, UINT16 |-> 1, INT32 |-> 2, UINT32 |-> 2, FLOAT32 |-> 2,
     UINT64 |-> 4]

\* C13: for a descriptor of a numeric type, decode of a word sequence that is
\* not as long as the type is wide (empty, shorter or longer) returns None;
\* the struct.error of the unpacking never leaves decode.
WrongLengthDecodesNone ==
    Decoded =>
        LET reg == registers[1]
        IN  reg.data_type \in DOMAIN NumericWidth =>
                /\ result # StructError
                /\ Len(call.words) # NumericWidth[reg.data_type]
                       => result = NoneVal

\* decode has returned None for a UINT32 descriptor given three words, none
\* of them a sentinel
WrongLengthWitness ==
    /\ Decoded
    /\ registers[1].data_type = "UINT32"
    /\ call.words = <<1, 1, 1>>
    /\ result = NoneVal

----------------------------------------------------------------------------
(* decode of STRING descriptors *)

\* the largest number of words of a string drawn from StringWords
MaxStringWords == 3

\* "\0\0", " A", "A ", "AB", "A\0", "\0A", 0xFFFF, U+00E9, U+00A0 (a space),
\* "A" with the first byte of a two-byte sequence, its second byte with "A"
StringWords ==
    {0, 8257, 16672, 16706, 16640, 65, 65535, 50089, 49824, 16835, 43329}

\* b"SolarEdge".ljust(32, b"\0") as sixteen words
SolarEdgeWords ==
    <<21359, 27745, 29253, 25703, 25856>> \o [i \in 1..11 |-> 0]

\* [0xFFFF] * 16
UnsetWords == [i \in 1..16 |-> 65535]

\* "TEST" as two words
TestWords == <<21573, 21332>>

StringFixtures == {SolarEdgeWords, UnsetWords, TestWords}

StringRegister(word_order, length) ==
    HoldingRegister("model", 40020, "STRING", length, word_order,
                    Str("model"), NoneKey)

InitString ==
    /\ \E word_order \in WordOrders :
           \/ \E n \in 0..MaxStringWords : \E ws \in [1..n -> StringWords] :
                  /\ registers = <<StringRegister(word_order,
                                                  IF n = 0 THEN 1 ELSE n)>>
                  /\ call = [op |-> "decode", state |-> "called", words |-> ws]
           \/ \E ws \in StringFixtures :
                  /\ registers = <<StringRegister(word_order, Len(ws))>>
                  /\ call = [op |-> "decode", state |-> "called", words |-> ws]
    /\ id = 1
    /\ data_cache = EmptyCache
    /\ tasks = NoTasks /\ in_flight = {} /\ updates = 0 /\ answered = 0
    /\ result = NoneVal

NextString == Decode

SpecString == InitString /\ [][NextString]_vars

\* the position of the first NUL of chars, Len(chars) + 1 when it has none
FirstNul(chars) ==
    IF \E i \in 1..Len(chars) : chars[i] = 0
    THEN CHOOSE i \in 1..Len(chars) :
             chars[i] = 0 /\ \A k \in 1..(i - 1) : chars[k] # 0
    ELSE Len(chars) + 1

\* "SolarEdge", "TEST" and "AA" as code points
SolarEdgeText == <<83, 111, 108, 97, 114, 69, 100, 103, 101>>
TestText == <<84, 69, 83, 84>>

\* C14: decode of a STRING descriptor returns the text of the byte buffer
\* before its first NUL without the whitespace at its two ends, and None when
\* nothing is left of it or when every byte of the buffer is 0xFF; sixteen
\* words of NUL-padded "SolarEdge" give "SolarEdge", sixteen 0xFFFF give None.
StringUpToNulStripped ==
    Decoded /\ registers[1].data_type = "STRING" =>
        LET reg == registers[1]
            words == call.words
            buf == byte_buffer(format_char(reg.word_order), words)
            chars == Utf8Decode(buf, 1)
            text == SubSeq(chars, 1, FirstNul(chars) - 1)
            blank == \A k \in 1..Len(text) : IsSpace(text[k])
            allFF == \A k \in 1..Len(buf) : buf[k] = 255
        IN  /\ (result = NoneVal) <=> (blank \/ allFF)
            /\ result # NoneVal =>
                   /\ result.t = "str"
                   /\ \E i, j \in 1..Len(text) :
                          /\ result.chars = SubSeq(text, i, j)
                          /\ ~IsSpace(text[i]) /\ ~IsSpace(text[j])
                          /\ \A k \in 1..(i - 1) : IsSpace(text[k])
                          /\ \A k \in (j + 1)..Len(text) : IsSpace(text[k])
            /\ (reg.word_order = "big" /\ words = SolarEdgeWords)
                   => result = PyStr(SolarEdgeText)
            /\ (reg.word_order = "big" /\ words = TestWords)
                   => result = PyStr(TestText)
            /\ words = UnsetWords => result = NoneVal
            /\ (reg.word_order = "big" /\ words = <<8257, 16672>>)
                   => result = PyStr(<<65, 65>>)
            /\ (reg.word_order = "big" /\ words = <<16640, 16706>>)
                   => result = PyStr(<<65>>)

\* decode has returned "AA" for the big-endian words " A", "A ", "\0A": the
\* text before the NUL, without the spaces at its ends
StringStrippedWitness ==
    /\ Decoded
    /\ registers[1].data_type = "STRING"
    /\ registers[1].word_order = "big"
    /\ call.words = <<8257, 16672, 65>>
    /\ result = PyStr(<<65, 65>>)

\* the bytes of the words in the order given, each word high byte first
RECURSIVE HighByteFirst(_)
HighByteFirst(words) ==
    IF words = <<>> THEN <<>>
    ELSE <<Head(words) \div 256, Head(words) % 256>> \o HighByteFirst(Tail(words))

\* C15: the byte buffer of decode has each word high byte first, and the word
\* order of the descriptor only decides in which order the whole words are
\* joined: a "little" descriptor decodes a word sequence to what a "big"
\* descriptor decodes the reversed sequence to, so the two characters of a
\* word of a STRING come out in the same order for both.
WordOrderMovesWholeWords ==
    Decoded =>
        LET reg == registers[1]
            words == call.words
        IN  /\ reg.word_order = "big" =>
                   byte_buffer(format_char("big"), words) = HighByteFirst(words)
            /\ result = decode([reg EXCEPT !.word_order = "big"],
                               AssembledPattern(reg.word_order, words))

----------------------------------------------------------------------------
(* HoldingRegister.text_value, HoldingRegister.__str__, and reporting *)

\* TEXT_MAPS
TEXT_MAPS ==
    [i_status |->
        (1 :> "Off" @@ 2 :> "Sleeping" @@ 3 :> "Starting" @@ 4 :> "Producing"
         @@ 5 :> "Throttled" @@ 6 :> "Shutting Down" @@ 7 :> "Fault"
         @@ 8 :> "Standby"),
     c_sunspec_did |->
        (101 :> "Single Phase Inverter" @@ 102 :> "Split Phase Inverter"
         @@ 103 :> "Three Phase Inverter" @@ 201 :> "Single Phase Meter"
         @@ 202 :> "Split Phase Meter" @@ 203 :> "Wye 3P1N Three Phase Meter"
         @@ 204 :> "Delta 3P Three Phase Meter" @@ 802 :> "Battery"
         @@ 803 :> "Lithium Ion Bank Battery"
         @@ 804 :> "Lithium Ion String Battery"
         @@ 805 :> "Lithium Ion Module Battery" @@ 806 :> "Flow Battery"
         @@ 807 :> "Flow String Battery" @@ 808 :> "Flow Module Battery"
         @@ 809 :> "Flow Stack Battery"),
     b_status |->
        (0 :> "Off" @@ 1 :> "Standby" @@ 2 :> "Init" @@ 3 :> "Charge"
         @@ 4 :> "Discharge" @@ 5 :> "Fault" @@ 6 :> "Idle"),
     b_status_internal |->
        (0 :> "Off" @@ 1 :> "Standby" @@ 2 :> "Init" @@ 3 :> "Charge"
         @@ 4 :> "Discharge" @@ 5 :> "Fault" @@ 6 :> "Idle")]

\* a descriptor with the label and units the constructor was given
WithDisplay(reg, label, units) == reg @@ [label |-> label, units |-> units]

\* a piece of a str written in the source or taken from a table
Lit(s) == [t |-> "lit", s |-> s]

\* TEXT_MAPS[self.key].get(raw_val)
text_map_get(key, raw_val) ==
    IF /\ raw_val.t = "int" /\ ~raw_val.neg /\ Len(raw_val.mag) <= 1
       /\ SmallNat(raw_val.mag) \in DOMAIN TEXT_MAPS[key]
    THEN Lit(TEXT_MAPS[key][SmallNat(raw_val.mag)])
    ELSE NoneVal

\* HoldingRegister.text_value
text_value(reg, cache) ==
    LET raw_val == cache_get(cache, reg.key)
    IN  IF /\ raw_val # NoneVal
           /\ reg.key # NoneKey
           /\ reg.key[1] \in DOMAIN TEXT_MAPS
        THEN text_map_get(reg.key[1], raw_val)
        ELSE NoneVal

\* the p decimal digits of frac
RECURSIVE DigitString(_, _)
DigitString(frac, p) ==
    IF p = 0 THEN "" ELSE DigitString(frac \div 10, p - 1) \o ToString(frac % 10)

\* the digits after the point of repr(float): no zeros at the end, one digit
\* at least
RECURSIVE FractionString(_, _)
FractionString(frac, p) ==
    IF p = 0 THEN "0"
    ELSE IF p > 1 /\ frac % 10 = 0 THEN FractionString(frac \div 10, p - 1)
    ELSE DigitString(frac, p)

\* f"{val}" for an int of one digit, a float of one digit and a str
format_value(val) ==
    CASE val.t = "int" ->
            Lit((IF val.neg THEN "-" ELSE "") \o ToString(SmallNat(val.mag)))
      [] val.t = "float" ->
            LET m == SmallNat(val.mag)
                scale == Pow10(val.places)
            IN  Lit((IF val.neg THEN "-" ELSE "") \o ToString(m \div scale)
                    \o "." \o FractionString(m % scale, val.places))
      [] OTHER -> val

\* HoldingRegister.__str__, as the pieces of the str
str(reg, cache, noise) ==
    LET val == value(reg, cache, noise)
        text == text_value(reg, cache)
    IN  IF val = NoneVal THEN <<Lit("N/A")>>
        ELSE IF text # NoneVal /\ text # Lit("") THEN <<text>>
        ELSE <<format_value(val)>>
             \o (IF Truthy(reg.units) THEN <<Lit(" " \o reg.units[1])>> ELSE <<>>)

\* the register map of a device with a scaled reading, its scale factor, a
\* reading with a text table and a string, set up by _init_registers
DisplayMap ==
    <<WithDisplay(HoldingRegister("pwr", 40083, "INT16", 1, "big",
                                  Str("pwr"), Str("pwr_sf")),
                  Str("Power"), Str("W")),
      WithDisplay(HoldingRegister("pwr_sf", 40084, "INT16", 1, "big",
                                  Str("pwr_sf"), NoneKey),
                  Str("Power SF"), NoneKey),
      WithDisplay(HoldingRegister("i_status", 40107, "UINT16", 1, "big",
                                  Str("i_status"), NoneKey),
                  Str("Status"), NoneKey),
      WithDisplay(HoldingRegister("model", 40020, "STRING", 2, "big",
                                  Str("model"), NoneKey),
                  Str("Model"), NoneKey)>>

\* the words a read may return for each register of DisplayMap: the sentinel
\* of its type first
DisplayWords ==
    <<{<<32768>>, <<100>>, <<65535>>},
      {<<32768>>, <<65535>>, <<2>>},
      {<<65535>>, <<4>>, <<9>>},
      {<<65535, 65535>>, <<0, 0>>, <<16706, 0>>}>>

\* the cache entries the other registers may have: none, None, or a value
DisplayEntries ==
    <<{<<>>, <<PyInt(FALSE, <<100>>)>>},
      {<<>>, <<NoneVal>>, <<PyInt(TRUE, <<1>>)>>, <<PyInt(FALSE, <<2>>)>>},
      {<<>>, <<PyInt(FALSE, <<4>>)>>},
      {<<>>, <<PyStr(<<65, 66>>)>>}>>

\* the cache with the entries e of the registers other than k
CacheOfEntries(e, k) ==
    [key \in {DisplayMap[i].key : i \in {j \in 1..4 : j # k /\ e[j] # <<>>}} |->
        e[CHOOSE i \in 1..4 : DisplayMap[i].key = key][1]]

\* the names of the attributes of a SolaredgeDevice
DeviceAttributes ==
    {"id", "name", "base", "registers", "data_cache", "__init__",
     "_init_registers", "update", "group_registers", "read_groups"}

AttributeError == [t |-> "AttributeError"]

\* Two sessions of one device: in the first a read returned words for
\* register k, in the second register k was never read.
InitDisplay ==
    /\ registers = DisplayMap
    /\ id = 1
    /\ \E k \in 1..4, e \in [1..4 -> UNION {DisplayEntries[i] : i \in 1..4}] :
           /\ \A i \in 1..4 : e[i] \in DisplayEntries[i]
           /\ e[k] = <<>>
           /\ \E words \in DisplayWords[k] :
                  /\ data_cache = dict_set(CacheOfEntries(e, k), DisplayMap[k].key,
                                           decode(DisplayMap[k], words))
                  /\ \E op \in {"display", "report", "print"} :
                         call = [op |-> op, state |-> "called", reg |-> k,
                                 words |-> words,
                                 never_read |-> CacheOfEntries(e, k)]
    /\ result = NoneVal
    /\ tasks = NoTasks /\ in_flight = {} /\ updates = 0 /\ answered = 0

\* what a caller sees of a session: the properties and the str of every
\* register, and the number of keys of the cache
View(cache, noise) ==
    [regs |-> [i \in 1..Len(registers) |->
                  [raw_value |-> raw_value(registers[i], cache),
                   value |-> value(registers[i], cache, noise),
                   text_value |-> text_value(registers[i], cache),
                   str |-> str(registers[i], cache, noise)]],
     keys |-> Cardinality(DOMAIN cache)]

\* the properties of the registers are read in both sessions
Display ==
    /\ call.op = "display"
    /\ call.state = "called"
    /\ \E noise \in FloatNoise :
           result' = [read |-> View(data_cache, noise),
                      never_read |-> View(call.never_read, noise)]
    /\ call' = [call EXCEPT !.state = "returned"]
    /\ UNCHANGED <<registers, id, data_cache, tasks, in_flight, updates, answered>>

\* device.report(): SolaredgeDevice has no attribute of that name
Report ==
    /\ call.op = "report"
    /\ call.state = "called"
    /\ result' = IF "report" \in DeviceAttributes
                 THEN [t |-> "method"] ELSE AttributeError
    /\ call' = [call EXCEPT !.state = "raised"]
    /\ UNCHANGED <<registers, id, data_cache, tasks, in_flight, updates, answered>>

\* k.endswith("_sf"), for the names of DisplayMap
endswith_sf(k) == \E i \in 1..Len(registers) : k = registers[i].name \o "_sf"

\* the loop of main that prints the registers: the name and the str of every
\* register whose name does not end in "_sf"
PrintLoop ==
    /\ call.op = "print"
    /\ call.state = "called"
    /\ \E noise \in FloatNoise :
           result' =
               [t |-> "printed",
                lines |-> [k \in {registers[i].name : i \in
                                     {j \in 1..Len(registers) :
                                          ~endswith_sf(registers[j].name)}} |->
                              str(RegNamed(k), data_cache, noise)]]
    /\ call' = [call EXCEPT !.state = "returned"]
    /\ UNCHANGED <<registers, id, data_cache, tasks, in_flight, updates, answered>>

NextDisplay == Display \/ Report \/ PrintLoop

SpecDisplay == InitDisplay /\ [][NextDisplay]_vars

----------------------------------------------------------------------------
(* Claims about reporting *)

\* C16: report() of a device session returns a mapping from label to str
\* that has an entry for every descriptor whose key does not end in "_sf" and
\* none for a descriptor whose key ends in "_sf": "Power" is in the report
\* and "Power SF" is not.
ReportExcludesScaleFactors ==
    call.op = "report" /\ call.state # "called" =>
        /\ call.state = "returned"
        /\ result.t = "dict"
        /\ \A i \in 1..Len(registers) :
               (registers[i].label[1] \in DOMAIN result.items)
                   <=> ~endswith_sf(registers[i].key[1])

Displayed == call.op = "display" /\ call.state = "returned"

\* the register the two sessions differ in, and what its read decoded to
DisplayedKey == registers[call.reg].key

ReadDecodedNone == data_cache[DisplayedKey] = NoneVal

\* what both sessions show of every register is the same, and the register
\* itself shows as absent: raw_value, value and text_value None, str "N/A"
SameView ==
    /\ result.read.regs = result.never_read.regs
    /\ result.read.regs[call.reg] =
           [raw_value |-> NoneVal, value |-> NoneVal, text_value |-> NoneVal,
            str |-> <<Lit("N/A")>>]

\* C18 as stated: a register whose read decoded to None shows as a register
\* that was never read, and the caches of the two sessions have the same
\* number of keys.
SentinelAsNeverRead ==
    Displayed /\ ReadDecodedNone =>
        /\ SameView
        /\ result.read.keys = result.never_read.keys

\* C18, amended: a register whose read decoded to None shows as a register
\* that was never read in raw_value, value, text_value and str, of itself and
\* of every other register; but the cache of the session that read it has the
\* register's key, with None, and so one key more than the other's.
SentinelAsNeverReadButKeyed ==
    Displayed /\ ReadDecodedNone =>
        /\ SameView
        /\ DisplayedKey \in DOMAIN data_cache
        /\ DisplayedKey \notin DOMAIN call.never_read
        /\ result.read.keys = result.never_read.keys + 1

\* the scale factor of pwr was read as the sentinel in one session and never
\* in the other, and pwr, cached as 100, shows as "100 W" in both
SentinelWitness ==
    /\ Displayed
    /\ ReadDecodedNone
    /\ DisplayedKey = Str("pwr_sf")
    /\ call.words = <<32768>>
    /\ result.read.regs[1].str = <<Lit("100"), Lit(" W")>>
    /\ result.never_read.regs[1].str = <<Lit("100"), Lit(" W")>>
    /\ result.read.keys = 2

----------------------------------------------------------------------------
(* Claims about the cache over the updates of a session *)

\* no read of the update of frame f came back with registers
NoReadOk(f) == \A g \in 1..Len(f.outcomes) : f.outcomes[g].kind # "registers"

\* C19: the cache of a session is empty when it is constructed; when an
\* update returns, the cache is empty exactly if it was empty before and no
\* group read of the update succeeded, so after any number of updates it is
\* empty exactly if no group read ever succeeded; and a cache that has an
\* entry never becomes empty again, also when every group read of a later
\* update fails.
CacheEmptyUntilFirstRead ==
    [][/\ updates = 0 => data_cache = EmptyCache
       /\ data_cache # EmptyCache => data_cache' # EmptyCache
       /\ \A t \in DOMAIN tasks :
              IF tasks'[t].pc = "returned" /\ tasks'[t] # tasks[t]
              THEN (data_cache' = EmptyCache)
                       <=> (data_cache = EmptyCache /\ NoReadOk(tasks'[t]))
              ELSE data_cache' = data_cache]_vars

\* a second update, of which every group read failed, has returned and the
\* cache still has the entries of the first
CachePopulatedWitness ==
    \E t \in DOMAIN tasks :
        LET f == tasks[t]
        IN  /\ f.pc = "returned"
            /\ updates = 2
            /\ Len(f.groups) >= 2
            /\ NoReadOk(f)
            /\ data_cache # EmptyCache
            /\ data_cache = f.before

\* the words the device returned for the addresses of descriptor d, in the
\* response to the read of group g of frame f
WordsAtAddresses(f, g, d) ==
    [i \in 1..d.length |->
        f.outcomes[g].registers[d.address - f.reads[g].address + i]]

\* C20: when an update has returned, for every descriptor d of a group whose
\* read came back with as many words as asked for, the cache entry of d is
\* the decode of the words returned for d.address .. d.address + d.length - 1,
\* whatever the entry was before and also when the decode is None; it is the
\* raw value, not the scaled one.
EntryIsDecodeOfOwnWords ==
    \A t \in DOMAIN tasks :
        LET f == tasks[t]
        IN  f.pc = "returned" =>
                \A g \in 1..Len(f.groups) :
                    (ReadOk(f, g)
                     /\ Len(f.outcomes[g].registers) = f.reads[g].count) =>
                        \A m \in 1..Len(f.groups[g]) :
                            LET d == f.groups[g][m]
                            IN  EntryOf(data_cache, d.key)
                                    = <<decode(d, WordsAtAddresses(f, g, d))>>

----------------------------------------------------------------------------
(* Claims about responses shorter than the request *)

\* the slice of descriptor d lies wholly inside the response to the read of
\* group g of frame f
SliceComplete(f, g, d) ==
    d.address - f.reads[g].address + d.length <= Len(f.outcomes[g].registers)

\* the response to the read of group g of frame f is shorter than asked for
ShortResponse(f, g) ==
    ReadOk(f, g) /\ Len(f.outcomes[g].registers) < f.reads[g].count

\* C21: when an update has returned, for every group whose read came back
\* with registers, also with fewer than asked for, the cache entry of every
\* descriptor whose slice is complete is the decode of the words returned for
\* its addresses, and the entry of every descriptor whose slice is short or
\* empty is None, whatever the data type, STRING included.
ShortSliceYieldsAbsent ==
    \A t \in DOMAIN tasks :
        LET f == tasks[t]
        IN  f.pc = "returned" =>
                \A g \in 1..Len(f.groups) :
                    ReadOk(f, g) =>
                        \A m \in 1..Len(f.groups[g]) :
                            LET d == f.groups[g][m]
                            IN  EntryOf(data_cache, d.key)
                                    = IF SliceComplete(f, g, d)
                                      THEN <<decode(d, WordsAtAddresses(f, g, d))>>
                                      ELSE <<NoneVal>>

----------------------------------------------------------------------------
(* Claims about the moment update stores its results *)

\* C22: while an update is suspended awaiting one of its group reads, the
\* cache is exactly what it was when the update was called, whatever the
\* reads answered so far have decoded; when the update has returned, every
\* group has been dealt with and the cache is the cache of before with the
\* results of all groups of the cycle stored over it together.
UpdateCommitsInOneStep ==
    \A t \in DOMAIN tasks :
        LET f == tasks[t]
        IN  /\ f.pc = "await" => data_cache = f.before
            /\ f.pc = "returned" =>
                   /\ Len(f.outcomes) = Len(f.groups)
                   /\ data_cache = cache_update(f.before, f.decoded_data)

\* the second update of a session is suspended in the read of a later group;
\* an earlier read of the cycle has decoded, for a key the cache holds, a
\* value other than the cached one
UpdateSuspendedWitness ==
    \E t \in DOMAIN tasks :
        LET f == tasks[t]
        IN  /\ f.pc = "await"
            /\ updates = 2
            /\ f.g >= 2
            /\ \E k \in DOMAIN f.decoded_data \cap DOMAIN data_cache :
                   f.decoded_data[k] # data_cache[k]

----------------------------------------------------------------------------
(* Two update calls on one session *)

\* update is a coroutine: a second call on the session can start while the
\* first is suspended in a read, and the two then interleave where they await
OverlapTasks == {1, 2}

InitOverlap ==
    /\ registers \in SessionMaps
    /\ id \in {1, 2}
    /\ data_cache = EmptyCache
    /\ call = [op |-> "update", state |-> "called"]
    /\ result = NoneVal
    /\ tasks = [t \in OverlapTasks |-> IdleFrame]
    /\ in_flight = {}
    /\ updates = 0
    /\ answered = 0

SpecOverlap == InitOverlap /\ [][Next]_vars

\* the keys of the members of a group
GroupKeys(group) == {group[m].key : m \in 1..Len(group)}

\* the successful reads of the two updates that cover key k, each as
\* <<task, group index>>
ReadsCovering(k) ==
    UNION {{<<t, g>> : g \in {x \in 1..Len(tasks[t].outcomes) :
                                /\ ReadOk(tasks[t], x)
                                /\ k \in GroupKeys(tasks[t].groups[x])}} :
           t \in DOMAIN tasks}

\* the read of a set that was answered last
LatestRead(reads) ==
    CHOOSE r \in reads :
        \A q \in reads :
            tasks[q[1]].outcomes[q[2]].at <= tasks[r[1]].outcomes[r[2]].at

\* the value the read r decoded for key k
ValueRead(r, k) ==
    LET f == tasks[r[1]]
    IN  decode_group(f.groups[r[2]], f.outcomes[r[2]].registers, 0,
                     EmptyCache)[k]

\* both update calls have returned
BothReturned == \A t \in DOMAIN tasks : tasks[t].pc = "returned"

\* C23: once the two update calls on a session have both returned, for every
\* key covered by a successful read of either, the cache holds the value
\* decoded from the read that was answered last among them: a reading never
\* replaces a newer one.
LatestReadWins ==
    BothReturned =>
        \A k \in DOMAIN data_cache :
            ReadsCovering(k) # {} =>
                data_cache[k] = ValueRead(LatestRead(ReadsCovering(k)), k)

====
